---- MODULE Spec2Model ----
(***************************************************************************)
(* A model of the Gemini browser extension: the popup (src/frontend/       *)
(* popup.js lines 1-682) and the relay server (the same file, lines        *)
(* 683-808).                                                               *)
(*                                                                         *)
(* Text is a sequence of characters, each character a one-element string;  *)
(* a few fixed messages of the program (the cancellation marker, the error *)
(* line, ...) are single tokens of such a sequence.                        *)
(*                                                                         *)
(* The popup runs on one event loop.  An action of the model is one task   *)
(* of that loop: an event handler, a timer callback or the completion of   *)
(* an awaited operation, together with everything the resumed async        *)
(* function does up to its next await.                                     *)
(***************************************************************************)
EXTENDS Integers, Sequences, FiniteSets, TLC

\* ------------------------------------------------------------ characters

BS == "\\"
NL == "\n"
TAB == "\t"
QUOTE == "\""
BACKSPACE == "<BS>"
REPLACEMENT == "<FFFD>"

\* /\s/ and JSON whitespace, over the characters the model uses
IsWs(c) == c \in {" ", NL, TAB}

Min(S) == CHOOSE x \in S : \A y \in S : x <= y

RECURSIVE Flatten(_)
Flatten(ss) == IF ss = <<>> THEN <<>> ELSE Head(ss) \o Flatten(Tail(ss))

IsPrefix(p, s) == Len(p) <= Len(s) /\ SubSeq(s, 1, Len(p)) = p

\* String.prototype.trim
RECURSIVE TrimLeft(_)
TrimLeft(s) ==
    IF s = <<>> THEN s
    ELSE IF IsWs(Head(s)) THEN TrimLeft(Tail(s)) ELSE s

TrimRight_none(s) == s

RECURSIVE TrimRight(_)
TrimRight(s) ==
    IF s = <<>> THEN s
    ELSE IF IsWs(s[Len(s)]) THEN TrimRight(SubSeq(s, 1, Len(s) - 1)) ELSE s

Trim(s) == TrimRight(TrimLeft(s))

\* ------------------------------------------------------------ JSON.parse
\* Over the characters the model uses a JSON value is a string or an object:
\* no digit, bracket or complete literal (true, false, null) can be spelled,
\* so any other value is a syntax error.

RECURSIVE SkipWs(_, _)
SkipWs(s, i) ==
    IF i <= Len(s) /\ IsWs(s[i]) THEN SkipWs(s, i + 1) ELSE i

JsonFail == [ok |-> FALSE, next |-> 0, isString |-> FALSE, val |-> <<>>]

\* the character an escape \e stands for inside a JSON string ("" : none)
JsonEscape(e) ==
    CASE e = QUOTE -> QUOTE
      [] e = BS -> BS
      [] e = "/" -> "/"
      [] e = "n" -> NL
      [] e = "t" -> TAB
      [] e = "b" -> BACKSPACE
      [] OTHER -> ""

\* the body of a string, from the character after its opening quote
RECURSIVE JsonStringBody(_, _, _)
JsonStringBody(s, i, acc) ==
    IF i > Len(s) THEN JsonFail
    ELSE IF s[i] = QUOTE
      THEN [ok |-> TRUE, next |-> i + 1, isString |-> TRUE, val |-> acc]
    ELSE IF s[i] = BS
      THEN IF i + 1 > Len(s) \/ JsonEscape(s[i + 1]) = "" THEN JsonFail
           ELSE JsonStringBody(s, i + 2, Append(acc, JsonEscape(s[i + 1])))
    ELSE IF s[i] \in {NL, TAB} THEN JsonFail
    ELSE JsonStringBody(s, i + 1, Append(acc, s[i]))

RECURSIVE JsonValue(_, _)
RECURSIVE JsonMembers(_, _, _)

\* an object from its "{" at i: val is the value of its last "text" member
\* when that is a string (isString), as parsed.text reads it
JsonObject(s, i) ==
    LET j == SkipWs(s, i + 1)
    IN  IF j <= Len(s) /\ s[j] = "}"
          THEN [ok |-> TRUE, next |-> j + 1, isString |-> FALSE, val |-> <<>>]
          ELSE JsonMembers(s, j, [isString |-> FALSE, val |-> <<>>])

JsonMembers(s, i, text) ==
    IF i > Len(s) \/ s[i] # QUOTE THEN JsonFail
    ELSE
      LET key == JsonStringBody(s, i + 1, <<>>)
      IN  IF ~key.ok THEN JsonFail
          ELSE
            LET c == SkipWs(s, key.next)
            IN  IF c > Len(s) \/ s[c] # ":" THEN JsonFail
                ELSE
                  LET v == JsonValue(s, SkipWs(s, c + 1))
                  IN  IF ~v.ok THEN JsonFail
                      ELSE
                        LET t == IF key.val = <<"t", "e", "x", "t">>
                                   THEN [isString |-> v.isString,
                                         val |-> IF v.isString THEN v.val ELSE <<>>]
                                   ELSE text
                            e == SkipWs(s, v.next)
                        IN  IF e > Len(s) THEN JsonFail
                            ELSE IF s[e] = "}"
                              THEN [ok |-> TRUE, next |-> e + 1,
                                    isString |-> t.isString, val |-> t.val]
                            ELSE IF s[e] = ","
                              THEN JsonMembers(s, SkipWs(s, e + 1), t)
                            ELSE JsonFail

\* a value at i: a string, or an object (isString FALSE)
JsonValue(s, i) ==
    IF i > Len(s) THEN JsonFail
    ELSE IF s[i] = QUOTE THEN JsonStringBody(s, i + 1, <<>>)
    ELSE IF s[i] = "{"
      THEN LET o == JsonObject(s, i)
           IN  [ok |-> o.ok, next |-> o.next, isString |-> FALSE, val |-> <<>>]
    ELSE JsonFail

\* JSON.parse(s) of a text that starts, after whitespace, with "{":
\* ok = no SyntaxError; hasText = typeof parsed.text === 'string'
JsonParse(s) ==
    LET i == SkipWs(s, 1)
    IN  IF i > Len(s) \/ s[i] # "{" THEN [ok |-> FALSE, hasText |-> FALSE, text |-> <<>>]
        ELSE
          LET o == JsonObject(s, i)
          IN  IF o.ok /\ SkipWs(s, o.next) = Len(s) + 1
                THEN [ok |-> TRUE, hasText |-> o.isString, text |-> o.val]
                ELSE [ok |-> FALSE, hasText |-> FALSE, text |-> <<>>]

\* ------------------------------------------------------- normalization

\* whether s continues at i with the characters of w
MatchAt(s, i, w) ==
    i + Len(w) - 1 <= Len(s) /\ SubSeq(s, i, i + Len(w) - 1) = w

TextKey == <<QUOTE, "t", "e", "x", "t", QUOTE>>

\* the index after  ^\s*\{\s*"text"\s*:  , or 0 when s does not match
EnvelopeHead(s) ==
    LET b == SkipWs(s, 1)
    IN  IF ~MatchAt(s, b, <<"{">>) THEN 0
        ELSE
          LET k == SkipWs(s, b + 1)
          IN  IF ~MatchAt(s, k, TextKey) THEN 0
              ELSE
                LET c == SkipWs(s, k + Len(TextKey))
                IN  IF MatchAt(s, c, <<":">>) THEN c + 1 ELSE 0

\* popup.js cleanChunk: /^\s*\{\s*"text"\s*:/
LooksLikeJsonClient(s) == EnvelopeHead(s) # 0

\* server cleanText: /^\s*\{\s*"text"\s*:\s*"/
LooksLikeJsonServer(s) ==
    EnvelopeHead(s) # 0 /\ MatchAt(s, SkipWs(s, EnvelopeHead(s)), <<QUOTE>>)

ReplaceEscape_first(s, c, r) ==
    LET at == { i \in 1..(Len(s) - 1) : s[i] = BS /\ s[i + 1] = c }
    IN  IF at = {} THEN s
        ELSE SubSeq(s, 1, Min(at) - 1) \o <<r>> \o SubSeq(s, Min(at) + 2, Len(s))

\* s.replace(/\\c/g, r): every backslash followed by c becomes r
RECURSIVE ReplaceEscape(_, _, _)
ReplaceEscape(s, c, r) ==
    IF Len(s) < 2 THEN s
    ELSE IF s[1] = BS /\ s[2] = c
      THEN <<r>> \o ReplaceEscape(SubSeq(s, 3, Len(s)), c, r)
      ELSE <<s[1]>> \o ReplaceEscape(Tail(s), c, r)

\* s.replace(/\*\*(.*?)\*\*/g, '$1'): the leftmost "**", the nearest "**"
\* after it on the same line ("." matches no line terminator)
RECURSIVE StripBold(_)
StripBold(s) ==
    IF Len(s) < 4 THEN s
    ELSE
      LET closers == { j \in 3..(Len(s) - 1) :
                         /\ s[j] = "*" /\ s[j + 1] = "*"
                         /\ \A m \in 3..(j - 1) : s[m] # NL }
      IN  IF s[1] = "*" /\ s[2] = "*" /\ closers # {}
            THEN SubSeq(s, 3, Min(closers) - 1)
                   \o StripBold(SubSeq(s, Min(closers) + 2, Len(s)))
            ELSE <<s[1]>> \o StripBold(Tail(s))

Unwrap(s, looksLikeJson) ==
    IF looksLikeJson /\ JsonParse(s).ok /\ JsonParse(s).hasText
      THEN JsonParse(s).text
      ELSE s

\* popup.js cleanChunk
cleanChunk(raw) ==
    IF raw = <<>> THEN <<>>
    ELSE StripBold(ReplaceEscape(ReplaceEscape(
             Unwrap(raw, LooksLikeJsonClient(raw)), "n", NL), "t", TAB))

\* server cleanText
cleanText(raw) ==
    IF raw = <<>> THEN <<>>
    ELSE StripBold(ReplaceEscape(ReplaceEscape(
             Unwrap(raw, LooksLikeJsonServer(raw)), "n", NL), "t", TAB))

\* -------------------------------------------------------- TextDecoder
\* new TextDecoder() decodes UTF-8.  A byte is written as the character it
\* encodes; "C3" and "A9" are the two bytes of one two-byte character.
LeadByte == "C3"
ContByte == "A9"
TwoByteChar == "e'"

\* decoder.decode(value, {stream: true}): pending is TRUE when the previous
\* call ended on a lead byte, which is kept for the next call
RECURSIVE Decode(_, _, _)
Decode(pending, bytes, acc) ==
    IF bytes = <<>> THEN [text |-> acc, pending |-> pending]
    ELSE
      LET b == Head(bytes)
      IN  IF pending
            THEN IF b = ContByte
                   THEN Decode(FALSE, Tail(bytes), Append(acc, TwoByteChar))
                   ELSE Decode(FALSE, bytes, Append(acc, REPLACEMENT))
          ELSE IF b = LeadByte THEN Decode(TRUE, Tail(bytes), acc)
          ELSE IF b = ContByte THEN Decode(FALSE, Tail(bytes), Append(acc, REPLACEMENT))
          ELSE Decode(FALSE, Tail(bytes), Append(acc, b))

\* ------------------------------------------------------------- bounds

\* sendPrompt calls (with a non-blank prompt) in one run
MaxSends == 2
\* body chunks the responses of one run deliver
MaxChunks == 2
\* Clear clicks in one run
MaxClears == 1

\* ---------------------------------------------------- program constants

TYPING_BATCH == 4
HistoryCap == 10

\* ------------------------------------------------------------- inputs

SendIds == 1..MaxSends
NoCtl == 0

\* what the user may have typed into the prompt box
PromptInputs == { <<" ">>, <<" ", "q", " ">> }

\* the prompt summarizeCurrentPage builds (one token: its text is not looked into)
SummaryPrompt == <<"Summarize this article in 3-4 sentences:">>

\* the byte chunks a response body may deliver
Chunks ==
    { <<" ">>,
      <<"*", "*", "a", "b", "c", "d", "e", "*", "*", LeadByte>>,
      <<ContByte, " ">> }

\* ------------------------------------------------------------- messages

PleaseEnter == "Please enter a question."
CancelMark == "\n[Cancelled]\n"
ErrorServer == "Error: Server error"
ErrorNetwork == "Error: network error"

ErrorWord == <<"E", "r", "r", "o", "r">>
CancelledWord == <<"C", "a", "n", "c", "e", "l", "l", "e", "d">>

\* String.prototype.includes
Includes(text, word) == \E i \in 1..Len(text) : MatchAt(text, i, word)

\* textContent.includes('Error') || textContent.includes('Cancelled'): one of
\* the popup's own messages, or the word in the text of a response
MentionsErrorOrCancelled(text) ==
    \/ \E i \in 1..Len(text) : text[i] \in {CancelMark, ErrorServer, ErrorNetwork}
    \/ Includes(text, ErrorWord)
    \/ Includes(text, CancelledWord)

\* --------------------------------------------------------------- turns

UserTurn(t) == [role |-> "user", text |-> t]
ModelTurn(t) == [role |-> "model", text |-> t]

\* a conversation an earlier popup session left in storage: n turns
OldTurns(n) ==
    [i \in 1..n |-> IF i % 2 = 1 THEN UserTurn(<<"u" \o ToString(i)>>)
                                 ELSE ModelTurn(<<"m" \o ToString(i)>>)]

StoredHistories == { <<>>, OldTurns(HistoryCap) }

LastN_first(h, n) == IF Len(h) > n THEN SubSeq(h, 1, n) ELSE h

\* array.slice(-n)
LastN(h, n) == IF Len(h) > n THEN SubSeq(h, Len(h) - n + 1, Len(h)) ELSE h

\* array.slice(0, -1)
AllButLast(h) == SubSeq(h, 1, Len(h) - 1)

\* the text of the most recent model turn, <<>> when there is none
RECURSIVE LastModelText(_)
LastModelText(h) ==
    IF h = <<>> THEN <<>>
    ELSE IF h[Len(h)].role = "model" THEN h[Len(h)].text
    ELSE LastModelText(AllButLast(h))

HasModelTurn(h) == \E i \in 1..Len(h) : h[i].role = "model"

\* =====================================================================
\* The popup
\* =====================================================================

VARIABLES
    conversationHistory,  \* popup.js:18
    typeQueue,            \* popup.js:13
    typerInterval,        \* popup.js:14, TRUE while the interval is set
    abortController,      \* popup.js:12, the send whose controller it holds, or NoCtl
    responseText,         \* responseDiv.textContent
    status,               \* statusSpan.className
    sendDisabled,         \* sendButton.disabled
    stopDisabled,         \* stopButton.disabled
    promptDisabled,       \* promptInput.disabled
    ttsDisabled,          \* ttsButton.disabled
    copyDisabled,         \* copyButton.disabled
    stored,               \* the chrome.storage.local entry of the page, or Absent
    storageOps,           \* saveStoredHistory / removeStoredHistoryForActiveTab calls under way
    sends,                \* the sendPrompt calls: where each stands, and its locals
    nextSend,             \* the next sendPrompt call
    chunksRead,           \* body chunks delivered so far
    clears,               \* Clear clicks so far
    relay,                \* the relay server's handling of one request
    norm,                 \* one text on its way through cleanText and cleanChunk
    page                  \* the active tab, and what the popup has asked of it

vars == <<conversationHistory, typeQueue, typerInterval, abortController,
          responseText, status, sendDisabled, stopDisabled, promptDisabled,
          ttsDisabled, copyDisabled, stored, storageOps, sends, nextSend,
          chunksRead, clears, relay, norm, page>>

popupVars == <<conversationHistory, typeQueue, typerInterval, abortController,
               responseText, status, sendDisabled, stopDisabled, promptDisabled,
               ttsDisabled, copyDisabled, stored, storageOps, sends, nextSend,
               chunksRead, clears, norm, page>>

popupVarsLessPage == <<conversationHistory, typeQueue, typerInterval, abortController,
                       responseText, status, sendDisabled, stopDisabled, promptDisabled,
                       ttsDisabled, copyDisabled, stored, storageOps, sends, nextSend,
                       chunksRead, clears, relay, norm>>

ui == <<status, sendDisabled, stopDisabled, promptDisabled, ttsDisabled, copyDisabled>>

Absent == [present |-> FALSE, history |-> <<>>]
Stored(h) == [present |-> TRUE, history |-> h]

\* A sendPrompt call.  pc is the await it is parked at:
\*   saveUser   await saveStoredHistory()              popup.js:191
\*   fetch      await fetch(...)                       popup.js:223
\*   errBody    await resp.text()                      popup.js:234
\*   read       await reader.read()                    popup.js:243
\*   drain      await new Promise(... setInterval ...) popup.js:259
\*   saveModel  await saveStoredHistory()              popup.js:284
\* prior, received and clean record, for the properties, what the call saw:
\* the conversation before its prompt, the decoded chunks it read, and whether
\* it ran alone, with no Stop, Clear or other prompt since it started.
\* A call that has returned keeps nothing.
IdleSend ==
    [pc |-> "idle", prompt |-> <<>>, hideInput |-> FALSE, fullResponse |-> <<>>,
     historyToSend |-> <<>>, pending |-> FALSE,
     prior |-> <<>>, received |-> <<>>, clean |-> TRUE]

Live(k) == sends[k].pc \notin {"idle", "finished"}

\* a Stop, a Clear or a new prompt reaches every call started so far
Interrupted(S) ==
    [k \in SendIds |-> IF S[k].pc = "idle" THEN S[k] ELSE [S[k] EXCEPT !.clean = FALSE]]

SetOp(k) == [kind |-> "set", owner |-> k, stage |-> "query", value |-> <<>>]
RemoveOp == [kind |-> "remove", owner |-> 0, stage |-> "query", value |-> <<>>]

\* the relay before any request
RelayIdle ==
    [pc |-> "idle", prompt |-> <<>>, conversationHistory |-> <<>>,
     clientAborted |-> FALSE, headersSent |-> FALSE, statusCode |-> 0, json |-> "",
     writes |-> <<>>, ended |-> FALSE, upstream |-> [called |-> FALSE, contents |-> <<>>, history |-> <<>>],
     pulls |-> 0, taken |-> 0, got |-> <<>>, failed |-> FALSE, atClose |-> [midStream |-> FALSE, pulls |-> 0, writes |-> 0]]

\* no text is being normalized
NormIdle == [pc |-> "idle", input |-> <<>>, client |-> <<>>, server |-> <<>>,
             clientAgain |-> <<>>, serverAgain |-> <<>>]

\* what the popup has asked of the active tab.  loaded: the startup loader has
\* run; pc: the await summarizeCurrentPage is parked at; tab: the active tab
\* (its URL, whether the content script listens in it, the length of its
\* cleaned text); clicks and messages count the Summarize clicks and the
\* chrome.tabs.sendMessage calls; asked is the sendMessage count when the
\* running call began; alert is the last alert(); embedded the page text
\* put into the last summarize prompt
PageIdle ==
    [loaded |-> TRUE, pc |-> "idle",
     tab |-> [url |-> "http", listening |-> FALSE, length |-> 0],
     clicks |-> 0, messages |-> 0, asked |-> 0, alert |-> "", embedded |-> <<>>]

\* the startup loader (popup.js:645-656) has run: the stored conversation is
\* loaded and its last model turn, if any, displayed
Init ==
    /\ conversationHistory \in StoredHistories
    /\ stored = IF conversationHistory = <<>> THEN Absent ELSE Stored(conversationHistory)
    /\ responseText = LastModelText(conversationHistory)
    /\ ttsDisabled = ~HasModelTurn(conversationHistory)
    /\ copyDisabled = ~HasModelTurn(conversationHistory)
    /\ status = "idle"
    /\ sendDisabled = FALSE
    /\ stopDisabled = TRUE
    /\ promptDisabled = FALSE
    /\ typeQueue = <<>>
    /\ typerInterval = FALSE
    /\ abortController = NoCtl
    /\ storageOps = <<>>
    /\ sends = [k \in SendIds |-> IdleSend]
    /\ nextSend = 1
    /\ chunksRead = 0
    /\ clears = 0
    /\ relay = RelayIdle
    /\ norm = NormIdle
    /\ page = PageIdle

\* ---------------------------------------------------------- render pump

Tick_takesAll ==
    /\ typerInterval
    /\ responseText' = responseText \o typeQueue
    /\ typeQueue' = <<>>
    /\ UNCHANGED <<conversationHistory, typerInterval, abortController, ui, stored,
                   storageOps, sends, nextSend, chunksRead, clears, relay, norm, page>>

\* the interval callback of startTyper
Tick ==
    /\ typerInterval
    /\ IF typeQueue = <<>>
         THEN UNCHANGED <<typeQueue, responseText>>
         ELSE LET n == IF Len(typeQueue) < TYPING_BATCH THEN Len(typeQueue) ELSE TYPING_BATCH
              IN  /\ responseText' = responseText \o SubSeq(typeQueue, 1, n)
                  /\ typeQueue' = SubSeq(typeQueue, n + 1, Len(typeQueue))
    /\ UNCHANGED <<conversationHistory, typerInterval, abortController, ui, stored,
                   storageOps, sends, nextSend, chunksRead, clears, relay, norm, page>>

\* ------------------------------------------------------------ sendPrompt

\* sendPrompt up to its first await: the user turn is pushed and
\* saveStoredHistory called, as call number nextSend
StartSend(prompt, hide) ==
    /\ nextSend <= MaxSends
    /\ conversationHistory' = Append(conversationHistory, UserTurn(prompt))
    /\ storageOps' = Append(storageOps, SetOp(nextSend))
    /\ sends' = [Interrupted(sends) EXCEPT ![nextSend] =
                    [IdleSend EXCEPT !.pc = "saveUser", !.prompt = prompt,
                                     !.hideInput = hide, !.prior = conversationHistory,
                                     !.clean = \A k \in SendIds : ~Live(k)]]
    /\ nextSend' = nextSend + 1

Finally_keepsPump(text, tts, copy) ==
    /\ responseText' = text
    /\ promptDisabled' = FALSE
    /\ sendDisabled' = FALSE
    /\ stopDisabled' = TRUE
    /\ abortController' = NoCtl
    /\ typerInterval' = typerInterval
    /\ ttsDisabled' = (MentionsErrorOrCancelled(text) \/ tts)
    /\ copyDisabled' = (MentionsErrorOrCancelled(text) \/ copy)

\* the finally block, after a step that left display text and the read/copy
\* controls as given
Finally(text, tts, copy) ==
    /\ responseText' = text
    /\ promptDisabled' = FALSE
    /\ sendDisabled' = FALSE
    /\ stopDisabled' = TRUE
    /\ abortController' = NoCtl
    /\ typerInterval' = FALSE
    /\ ttsDisabled' = (MentionsErrorOrCancelled(text) \/ tts)
    /\ copyDisabled' = (MentionsErrorOrCancelled(text) \/ copy)

Finished == [IdleSend EXCEPT !.pc = "finished"]

\* catch (err) with err.name === 'AbortError', then finally; text is the
\* display when the rejection is delivered
CatchAbort(k, text) ==
    /\ status' = "cancelled"
    /\ Finally(text \o <<CancelMark>>, ttsDisabled, copyDisabled)

\* catch (err) with any other error, then finally
CatchError(k, message) ==
    /\ status' = "error"
    /\ Finally(<<message>>, ttsDisabled, copyDisabled)

\* setStatus('done'), the controls enabled, then finally
Complete(k) ==
    /\ status' = "done"
    /\ Finally(responseText, FALSE, FALSE)

\* the first saveStoredHistory is done: the display is prepared and the
\* request sent with the conversation less its last turn
AfterSaveUser(k) ==
    /\ responseText' = <<>>
    /\ promptDisabled' = (sends[k].hideInput \/ promptDisabled)
    /\ status' = "loading"
    /\ sendDisabled' = TRUE
    /\ stopDisabled' = FALSE
    /\ abortController' = k
    /\ sends' = [sends EXCEPT ![k].pc = "fetch",
                              ![k].historyToSend = AllButLast(conversationHistory)]
    /\ UNCHANGED <<conversationHistory, typeQueue, typerInterval, ttsDisabled,
                   copyDisabled, nextSend, chunksRead, clears, relay, norm, page>>

\* the second saveStoredHistory is done
AfterSaveModel(k) ==
    /\ Complete(k)
    /\ sends' = [sends EXCEPT ![k] = Finished]
    /\ UNCHANGED <<conversationHistory, typeQueue, nextSend, chunksRead, clears, relay, norm, page>>

\* fetch resolves with a response: a 200 whose body is then read, or an
\* error status whose body is read as text
FetchResponds(k, ok) ==
    /\ sends[k].pc = "fetch"
    /\ sends' = [sends EXCEPT ![k].pc = IF ok THEN "read" ELSE "errBody"]
    /\ UNCHANGED <<conversationHistory, typeQueue, typerInterval, abortController,
                   responseText, ui, stored, storageOps, nextSend, chunksRead, clears, relay, norm, page>>

\* fetch rejects: the relay cannot be reached
FetchFails(k) ==
    /\ sends[k].pc = "fetch"
    /\ CatchError(k, ErrorNetwork)
    /\ sends' = [sends EXCEPT ![k] = Finished]
    /\ UNCHANGED <<conversationHistory, typeQueue, stored, storageOps, nextSend,
                   chunksRead, clears, relay, norm, page>>

\* resp.text() settles, and the Error of line 235 is thrown
ErrorBodyRead(k) ==
    /\ sends[k].pc = "errBody"
    /\ CatchError(k, ErrorServer)
    /\ sends' = [sends EXCEPT ![k] = Finished]
    /\ UNCHANGED <<conversationHistory, typeQueue, stored, storageOps, nextSend,
                   chunksRead, clears, relay, norm, page>>

enqueueText_front(queue, text) == text \o queue

\* enqueueText: the characters are pushed at the back of the queue
enqueueText(queue, text) == queue \o text

\* reader.read() resolves with a chunk of bytes
ReadChunk(k, bytes) ==
    /\ sends[k].pc = "read"
    /\ chunksRead < MaxChunks
    /\ chunksRead' = chunksRead + 1
    /\ LET d == Decode(sends[k].pending, bytes, <<>>)
           chunkText == cleanChunk(d.text)
       IN  /\ sends' = [sends EXCEPT
                          ![k].pending = d.pending,
                          ![k].received = Append(@, d.text),
                          ![k].fullResponse = @ \o chunkText]
           /\ IF chunkText # <<>>
                THEN /\ typeQueue' = enqueueText(typeQueue, chunkText)
                     /\ typerInterval' = TRUE
                ELSE UNCHANGED <<typeQueue, typerInterval>>
    /\ UNCHANGED <<conversationHistory, abortController, responseText, ui, stored,
                   storageOps, nextSend, clears, relay, norm, page>>

\* reader.read() resolves with done: the wait for the queue starts
ReadDone(k) ==
    /\ sends[k].pc = "read"
    /\ sends' = [sends EXCEPT ![k].pc = "drain"]
    /\ UNCHANGED <<conversationHistory, typeQueue, typerInterval, abortController,
                   responseText, ui, stored, storageOps, nextSend, chunksRead, clears, relay, norm, page>>

ReadFails_keepsPartial(k) ==
    /\ sends[k].pc = "read"
    /\ CatchError(k, ErrorNetwork)
    /\ sends' = [sends EXCEPT ![k] = Finished]
    /\ conversationHistory' = Append(conversationHistory, ModelTurn(sends[k].fullResponse))
    /\ UNCHANGED <<typeQueue, stored, storageOps, nextSend,
                   chunksRead, clears, relay, norm, page>>

\* reader.read() rejects: the connection broke
ReadFails(k) ==
    /\ sends[k].pc = "read"
    /\ CatchError(k, ErrorNetwork)
    /\ sends' = [sends EXCEPT ![k] = Finished]
    /\ UNCHANGED <<conversationHistory, typeQueue, stored, storageOps, nextSend,
                   chunksRead, clears, relay, norm, page>>

\* the 50 ms check finds the queue empty: the model turn is pushed, the
\* conversation cut to its last HistoryCap turns and saved; with a blank
\* response the send completes at once
DrainCheck(k) ==
    /\ sends[k].pc = "drain"
    /\ typeQueue = <<>>
    /\ IF Trim(sends[k].fullResponse) # <<>>
         THEN /\ conversationHistory' =
                   LastN(Append(conversationHistory, ModelTurn(Trim(sends[k].fullResponse))),
                         HistoryCap)
              /\ storageOps' = Append(storageOps, SetOp(k))
              /\ sends' = [sends EXCEPT ![k].pc = "saveModel"]
              /\ UNCHANGED <<typerInterval, abortController, responseText, ui>>
         ELSE /\ Complete(k)
              /\ sends' = [sends EXCEPT ![k] = Finished]
              /\ UNCHANGED <<conversationHistory, storageOps>>
    /\ UNCHANGED <<typeQueue, stored, nextSend, chunksRead, clears, relay, norm, page>>

\* --------------------------------------------------------------- storage

TabQueryDone_noCapture ==
    /\ \E i \in 1..Len(storageOps) : storageOps[i].stage = "query"
    /\ LET i == Min({ j \in 1..Len(storageOps) : storageOps[j].stage = "query" })
       IN  storageOps' = [storageOps EXCEPT ![i].stage = "store"]
    /\ UNCHANGED <<conversationHistory, typeQueue, typerInterval, abortController,
                   responseText, ui, stored, sends, nextSend, chunksRead, clears, relay, norm, page>>

\* chrome.tabs.query answers the oldest call still waiting for it; a save
\* then hands the conversation, as it is now, to chrome.storage.local.set
TabQueryDone ==
    /\ \E i \in 1..Len(storageOps) : storageOps[i].stage = "query"
    /\ LET i == Min({ j \in 1..Len(storageOps) : storageOps[j].stage = "query" })
       IN  storageOps' = [storageOps EXCEPT ![i].stage = "store",
                                            ![i].value = IF storageOps[i].kind = "set"
                                                           THEN conversationHistory ELSE <<>>]
    /\ UNCHANGED <<conversationHistory, typeQueue, typerInterval, abortController,
                   responseText, ui, stored, sends, nextSend, chunksRead, clears, relay, norm, page>>

\* chrome.storage.local completes its oldest call, and the sendPrompt that
\* awaited it goes on
StorageDone ==
    /\ storageOps # <<>>
    /\ Head(storageOps).stage = "store"
    /\ storageOps' = Tail(storageOps)
    /\ stored' = IF Head(storageOps).kind = "set" THEN Stored(Head(storageOps).value) ELSE Absent
    /\ LET k == Head(storageOps).owner
       IN  IF k = 0
             THEN UNCHANGED <<conversationHistory, typeQueue, typerInterval,
                              abortController, responseText, ui, sends, nextSend,
                              chunksRead, clears, relay, norm, page>>
           ELSE IF sends[k].pc = "saveUser" THEN AfterSaveUser(k)
           ELSE AfterSaveModel(k)

\* -------------------------------------------------------------- controls

\* sendButton click (also Enter in the prompt box): the display is reset and
\* sendPrompt() called with what the prompt box holds; the box is empty while
\* it is disabled
SendClick(typed) ==
    /\ ~sendDisabled
    /\ typeQueue' = <<>>
    /\ typerInterval' = FALSE
    /\ ttsDisabled' = TRUE
    /\ copyDisabled' = TRUE
    /\ LET prompt == Trim(IF promptDisabled THEN <<>> ELSE typed)
       IN  IF prompt = <<>>
             THEN /\ responseText' = <<PleaseEnter>>
                  /\ sends' = Interrupted(sends)
                  /\ UNCHANGED <<conversationHistory, storageOps, nextSend>>
             ELSE /\ responseText' = <<>>
                  /\ StartSend(prompt, FALSE)
    /\ UNCHANGED <<abortController, status, sendDisabled, stopDisabled, promptDisabled,
                   stored, chunksRead, clears, relay, norm, page>>

\* what abortController.abort() does to the call k that made the controller:
\* a pending fetch or read rejects with an AbortError; a pending resp.text()
\* rejects too, is caught by .catch(() => ''), and line 235 throws; a call
\* waiting for anything else goes on
AbortEffect(k) ==
    IF k = NoCtl THEN "none"
    ELSE CASE sends[k].pc \in {"fetch", "read"} -> "cancelled"
           [] sends[k].pc = "errBody" -> "error"
           [] OTHER -> "none"

\* stopButton click (also Escape in the prompt box)
StopClick ==
    /\ ~stopDisabled
    /\ LET k == abortController
       IN  CASE AbortEffect(k) = "cancelled" ->
                  /\ CatchAbort(k, responseText)
                  /\ sends' = Interrupted([sends EXCEPT ![k] = Finished])
             [] AbortEffect(k) = "error" ->
                  /\ CatchError(k, ErrorServer)
                  /\ sends' = Interrupted([sends EXCEPT ![k] = Finished])
             [] OTHER ->
                  /\ stopDisabled' = TRUE
                  /\ sends' = Interrupted(sends)
                  /\ UNCHANGED <<typerInterval, abortController, responseText, status,
                                 sendDisabled, promptDisabled, ttsDisabled, copyDisabled>>
    /\ UNCHANGED <<conversationHistory, typeQueue, stored, storageOps, nextSend,
                   chunksRead, clears, relay, norm, page>>

\* clearButton click; the sendPrompt its abort rejects runs its catch and
\* finally right after the handler
ClearClick ==
    /\ clears < MaxClears
    /\ clears' = clears + 1
    /\ typeQueue' = <<>>
    /\ conversationHistory' = <<>>
    /\ storageOps' = Append(storageOps, RemoveOp)
    /\ LET k == abortController
       IN  CASE AbortEffect(k) = "cancelled" ->
                  /\ status' = "cancelled"
                  /\ Finally(<<CancelMark>>, TRUE, TRUE)
                  /\ sends' = Interrupted([sends EXCEPT ![k] = Finished])
             [] AbortEffect(k) = "error" ->
                  /\ status' = "error"
                  /\ Finally(<<ErrorServer>>, TRUE, TRUE)
                  /\ sends' = Interrupted([sends EXCEPT ![k] = Finished])
             [] OTHER ->
                  /\ typerInterval' = FALSE
                  /\ responseText' = <<>>
                  /\ status' = "idle"
                  /\ sendDisabled' = FALSE
                  /\ stopDisabled' = TRUE
                  /\ ttsDisabled' = TRUE
                  /\ copyDisabled' = TRUE
                  /\ sends' = Interrupted(sends)
                  /\ UNCHANGED <<abortController, promptDisabled>>
    /\ UNCHANGED <<stored, nextSend, chunksRead, relay, norm, page>>

\* -------------------------------------------------------------- summarize

\* summarizeCurrentPage.  Between the click and the use of the page content
\* the function only awaits the tab and the content script and touches no
\* state of the popup, so the click and these awaits are folded into the step
\* that ends them.

\* the page content cannot be had (unsupported page, no URL, content script
\* unreachable, empty content): alert(), which blocks until dismissed
SummarizeFails ==
    /\ UNCHANGED vars

SummarizeSends_noReset ==
    /\ responseText' = <<>>
    /\ StartSend(SummaryPrompt, TRUE)
    /\ UNCHANGED <<typeQueue, typerInterval, abortController, ui, stored, chunksRead,
                   clears, relay, norm, page>>

\* the page content arrives: the display is reset and sendPrompt(prompt, true)
\* called
SummarizeSends ==
    /\ typeQueue' = <<>>
    /\ typerInterval' = FALSE
    /\ responseText' = <<>>
    /\ StartSend(SummaryPrompt, TRUE)
    /\ UNCHANGED <<abortController, ui, stored, chunksRead, clears, relay, norm, page>>

Next ==
    \/ Tick
    \/ \E t \in PromptInputs : SendClick(t)
    \/ StopClick
    \/ ClearClick
    \/ SummarizeFails
    \/ SummarizeSends
    \/ TabQueryDone
    \/ StorageDone
    \/ \E k \in SendIds : \E ok \in BOOLEAN : FetchResponds(k, ok)
    \/ \E k \in SendIds : FetchFails(k)
    \/ \E k \in SendIds : ErrorBodyRead(k)
    \/ \E k \in SendIds : \E c \in Chunks : ReadChunk(k, c)
    \/ \E k \in SendIds : ReadDone(k)
    \/ \E k \in SendIds : ReadFails(k)
    \/ \E k \in SendIds : DrainCheck(k)

Spec == Init /\ [][Next]_vars

\* ---------------------------------------------------------------------
\* Properties of the popup
\* ---------------------------------------------------------------------

\* normalize(C1) + ... + normalize(Cn) of the chunks call k has read
Expected(k) ==
    Flatten([i \in 1..Len(sends[k].received) |-> cleanChunk(sends[k].received[i])])

\* call k returns in this step, with the given status
Returns(k, st) == Live(k) /\ sends'[k].pc = "finished" /\ status' = st

\* C1: in a send that runs alone (no Stop, no Clear, no other prompt since it
\* started, and no other send under way), the displayed output is at every
\* moment a prefix of the concatenation of the normalized chunks read so far,
\* and equals that concatenation when the send completes with status 'done'.
C1_RenderedInOrder ==
    /\ [](\A k \in SendIds :
            (sends[k].clean /\ sends[k].pc \in {"fetch", "read", "drain", "saveModel"})
              => IsPrefix(responseText, Expected(k)))
    /\ [][\A k \in SendIds :
            (sends[k].clean /\ Returns(k, "done")) => responseText' = Expected(k)]_vars

\* a send that ran alone has read two chunks, the pump has drained them, and
\* what is displayed differs from the raw text read
C1_Witness ==
    \E k \in SendIds :
        /\ sends[k].clean
        /\ sends[k].pc = "saveModel"
        /\ Len(sends[k].received) = 2
        /\ Len(responseText) > TYPING_BATCH
        /\ responseText = Expected(k)
        /\ responseText # Flatten(sends[k].received)

\* C2: pressing Stop while the response stream is being read appends exactly
\* one '[Cancelled]' marker to the output, and when the cancelled send has
\* returned the render queue is empty.
C2_StopLeavesQueueEmpty ==
    [][\A k \in SendIds :
          (sends[k].pc = "read" /\ Returns(k, "cancelled") /\ clears' = clears)
            => /\ responseText' = Append(responseText, CancelMark)
               /\ typeQueue' = <<>>]_vars

\* C3: at most one sendPrompt call is under way at any time.
C3_OneRequestAtATime ==
    Cardinality({ k \in SendIds : Live(k) }) <= 1

\* C4: once Clear has emptied the conversation, it stays empty, and the stored
\* entry, once removed, stays absent, in every step that issues no new prompt.
C4_ClearedStaysCleared ==
    [][(clears > 0 /\ conversationHistory = <<>> /\ nextSend' = nextSend)
         => /\ conversationHistory' = <<>>
            /\ (stored = Absent /\ storageOps = <<>>) => stored' = Absent]_vars

\* the model turn call k appends, when the 50 ms check finds the queue empty
AppendsModelTurn(k) == sends[k].pc = "drain" /\ sends'[k].pc = "saveModel"

C6_FinalizedOnlyWhenDrained ==
    [][\A k \in SendIds :
          (AppendsModelTurn(k) \/ Returns(k, "done"))
            => /\ sends[k].pc \in {"drain", "saveModel"}
               /\ typeQueue = <<>>]_vars

\* C7: when the request of call k is sent, the user turn of its prompt is in
\* the conversation, and the history in the request body is the conversation
\* as it was before that prompt.
C7_HistoryIsPriorTurns ==
    [][\A k \in SendIds :
          (sends[k].pc = "saveUser" /\ sends'[k].pc = "fetch")
            => /\ \E i \in 1..Len(conversationHistory') :
                    conversationHistory'[i] = UserTurn(sends[k].prompt)
               /\ sends'[k].historyToSend = sends[k].prior]_vars

\* t is s without the whitespace at its two ends
IsTrimOf(t, s) ==
    \/ t = <<>> /\ \A i \in 1..Len(s) : IsWs(s[i])
    \/ /\ t # <<>> /\ ~IsWs(t[1]) /\ ~IsWs(t[Len(t)])
       /\ \E i \in 1..Len(s) :
             /\ i + Len(t) - 1 <= Len(s)
             /\ SubSeq(s, i, i + Len(t) - 1) = t
             /\ \A j \in 1..Len(s) : (j < i \/ j > i + Len(t) - 1) => IsWs(s[j])

\* the step in which call k starts: sendPrompt up to its first await
Starts(k) == sends[k].pc = "idle" /\ sends'[k].pc = "saveUser"

\* C12: a send adds its user turn when it starts; when its stream has ended
\* and its text is not blank it adds one model turn, whose text is the
\* trimmed concatenation of its normalized chunks, and with a blank or empty
\* text it adds none.  A send that ran alone leaves the conversation as it
\* was before the prompt, then the user turn, then the model turn if any
\* (the HistoryCap most recent of them).
C12_TurnsAdded ==
    [][\A k \in SendIds :
          /\ Starts(k) =>
                conversationHistory' = Append(conversationHistory, UserTurn(sends'[k].prompt))
          /\ (sends[k].pc = "drain" /\ sends'[k].pc # "drain") =>
                \/ /\ IsTrimOf(<<>>, Expected(k))
                   /\ Returns(k, "done")
                   /\ conversationHistory' = conversationHistory
                   /\ sends[k].clean =>
                        conversationHistory =
                            Append(sends[k].prior, UserTurn(sends[k].prompt))
                \/ /\ ~IsTrimOf(<<>>, Expected(k))
                   /\ sends'[k].pc = "saveModel"
                   /\ \E d \in 0..(MaxSends + 1) :
                        LET h == conversationHistory'
                            n == Len(conversationHistory) + 1 - d
                        IN  /\ Len(h) = n /\ n > 0
                            /\ d > 0 => n = HistoryCap
                            /\ \A i \in 1..(n - 1) : h[i] = conversationHistory[i + d]
                            /\ h[n].role = "model"
                            /\ IsTrimOf(h[n].text, Expected(k))
                            /\ sends[k].clean =>
                                 /\ conversationHistory =
                                       Append(sends[k].prior, UserTurn(sends[k].prompt))
                                 /\ h[n - 1] = UserTurn(sends[k].prompt)
          /\ (sends[k].pc = "saveModel" /\ Returns(k, "done")) =>
                conversationHistory' = conversationHistory]_vars

\* a send that ran alone has added its user turn and a model turn whose text
\* lost the whitespace at the end of the response
C12_Witness ==
    \E k \in SendIds :
        /\ sends[k].clean /\ sends[k].pc = "saveModel"
        /\ Len(conversationHistory) = Len(sends[k].prior) + 2
        /\ conversationHistory[Len(conversationHistory) - 1] = UserTurn(sends[k].prompt)
        /\ conversationHistory[Len(conversationHistory)].role = "model"
        /\ Len(conversationHistory[Len(conversationHistory)].text) < Len(Expected(k))

\* C13: the conversation history in the body of any request holds at most
\* HistoryCap turns.
C13_SentHistoryCapped ==
    [][\A k \in SendIds :
          (sends[k].pc = "saveUser" /\ sends'[k].pc = "fetch")
            => Len(sends'[k].historyToSend) <= HistoryCap]_vars

\* C14: the step that issues a new prompt (Send click or Summarize) leaves
\* the render queue empty, the pump stopped and the display cleared, whether
\* or not an earlier send is under way; the request is sent in a later step,
\* which clears the display again.
C14_ResetBeforeSend ==
    [][\A k \in SendIds :
          /\ Starts(k) =>
                /\ typeQueue' = <<>> /\ ~typerInterval' /\ responseText' = <<>>
                /\ sends'[k].pc # "fetch"
          /\ (sends[k].pc = "saveUser" /\ sends'[k].pc = "fetch") =>
                responseText' = <<>>]_vars

\* a second prompt was issued while the first send had text on its way to the
\* display: queue and display are empty and the pump stopped
C14_Witness ==
    /\ sends[1].pc = "read" /\ sends[2].pc = "saveUser"
    /\ Len(sends[1].received) = 1
    /\ cleanChunk(sends[1].received[1]) # <<>>
    /\ typeQueue = <<>> /\ ~typerInterval /\ responseText = <<>>
    /\ clears = 0

\* no sendPrompt call is under way and no storage call outstanding
Quiescent == storageOps = <<>> /\ \A k \in SendIds : ~Live(k)

C19_AbortMeansCancelled ==
    [][\A k \in SendIds :
          /\ (Live(k) /\ sends'[k].pc = "finished") =>
                status' \in {"done", "cancelled", "error"}
          /\ ((StopClick \/ ClearClick) /\ abortController = k
                /\ sends[k].pc \in {"fetch", "errBody", "read"}) =>
                Returns(k, "cancelled")]_vars

\* C22: a render tick takes min(TYPING_BATCH, queue length) characters from
\* the front of the queue and puts them, in their order, at the end of the
\* display; with an empty queue it changes neither, and the pump stays set.
C22_TickMovesBatch ==
    [][Tick =>
         LET n == IF Len(typeQueue) < TYPING_BATCH THEN Len(typeQueue) ELSE TYPING_BATCH
         IN  /\ Len(typeQueue') = Len(typeQueue) - n
             /\ Len(responseText') = Len(responseText) + n
             /\ responseText' \o typeQueue' = responseText \o typeQueue
             /\ typerInterval' /\ typerInterval]_vars

\* of the five characters of a chunk, a tick has displayed four and left one
C22_Witness ==
    /\ typerInterval
    /\ responseText = <<"a", "b", "c", "d">>
    /\ typeQueue = <<"e">>

\* the request of call k is in flight: its fetch is issued and the call has
\* not finished
InFlight(k) == sends[k].pc \in {"fetch", "errBody", "read", "drain", "saveModel"}

\* C27: while the request of a sendPrompt call is in flight, abortController
\* is the controller made for that call, so that Stop aborts that request
C27_ControllerIsOwn ==
    \A k \in SendIds : InFlight(k) => abortController = k

\* what the network does to the request of call k
Network(k) ==
    \/ \E ok \in BOOLEAN : FetchResponds(k, ok)
    \/ FetchFails(k)
    \/ ErrorBodyRead(k)
    \/ \E c \in Chunks : ReadChunk(k, c)
    \/ ReadDone(k)
    \/ ReadFails(k)

\* timers keep firing, storage calls complete, and every request ends or fails
SpecFair ==
    /\ Spec
    /\ WF_vars(Tick)
    /\ WF_vars(TabQueryDone)
    /\ WF_vars(StorageDone)
    /\ \A k \in SendIds : WF_vars(Network(k)) /\ WF_vars(DrainCheck(k))

\* C28: every sendPrompt call that has started returns
C28_EverySendFinishes ==
    \A k \in SendIds : Live(k) ~> (sends[k].pc = "finished")

\* C29: Clear, with the catch and finally blocks it sets off, leaves the
\* display empty and the status 'idle', and both stay so in every later step
\* that is no Send click and issues no new prompt
C29_ClearedDisplayStays ==
    [][/\ ClearClick => responseText' = <<>> /\ status' = "idle"
       /\ (/\ clears > 0 /\ responseText = <<>> /\ status = "idle"
           /\ nextSend' = nextSend
           /\ ~(\E t \in PromptInputs : SendClick(t)))
            => responseText' = <<>> /\ status' = "idle"]_vars

\* call k returns cancelled or failed in this step
ReturnsFailed(k) == Returns(k, "cancelled") \/ Returns(k, "error")

\* C30 (as stated): when a send returns cancelled or failed, the conversation
\* is the conversation before the send plus its user turn
C30_OnlyUserTurnAdded ==
    [][\A k \in SendIds :
          (ReturnsFailed(k) /\ sends[k].clean) =>
              conversationHistory' = Append(sends[k].prior, UserTurn(sends[k].prompt))]_vars

\* C30 (amended): a send returns cancelled or failed only from its fetch or
\* its reads; the step adds no turn to the conversation, queues no write of it
\* and leaves the stored entry alone; Clear, when it is what cancelled the
\* send, empties the conversation and queues the removal; otherwise, for a
\* send that ran alone, the conversation is the one before the send plus its
\* user turn
C30_NoModelTurnOnFailure ==
    [][\A k \in SendIds :
          ReturnsFailed(k) =>
              /\ sends[k].pc \in {"fetch", "errBody", "read"}
              /\ stored' = stored
              /\ IF ClearClick
                   THEN /\ conversationHistory' = <<>>
                        /\ storageOps' = Append(storageOps, RemoveOp)
                   ELSE /\ conversationHistory' = conversationHistory
                        /\ storageOps' = storageOps
                        /\ sends[k].clean =>
                             conversationHistory' =
                                 Append(sends[k].prior, UserTurn(sends[k].prompt))]_vars

\* a send that had received text was stopped: the conversation holds its
\* user turn and nothing else
C30_Witness ==
    /\ sends[1].pc = "finished"
    /\ nextSend = 2
    /\ clears = 0
    /\ status = "cancelled"
    /\ chunksRead > 0
    /\ Len(responseText) > 1
    /\ conversationHistory = <<UserTurn(<<"q">>)>>
    /\ stored = Stored(<<UserTurn(<<"q">>)>>)

\* ---------------------------------------------------------------------
\* The popup with responses that hold words
\* ---------------------------------------------------------------------

\* the body chunks of a response whose text says 'ok', or 'Error'
WordChunks == { <<"o", "k">>, ErrorWord }

NextWords ==
    \/ Tick
    \/ \E t \in PromptInputs : SendClick(t)
    \/ StopClick
    \/ TabQueryDone
    \/ StorageDone
    \/ \E k \in SendIds : \E ok \in BOOLEAN : FetchResponds(k, ok)
    \/ \E k \in SendIds : FetchFails(k)
    \/ \E k \in SendIds : ErrorBodyRead(k)
    \/ \E k \in SendIds : \E c \in WordChunks : ReadChunk(k, c)
    \/ \E k \in SendIds : ReadDone(k)
    \/ \E k \in SendIds : ReadFails(k)
    \/ \E k \in SendIds : DrainCheck(k)

SpecWords == Init /\ [][NextWords]_vars

\* C31: when a send that ran alone completes with status 'done', the
\* read-aloud and copy buttons are enabled, whatever the text of the response
C31_DoneEnablesControls ==
    [][\A k \in SendIds :
          (Returns(k, "done") /\ sends[k].clean) => ~ttsDisabled' /\ ~copyDisabled']_vars

\* the cancellation marker is in the display
MarkerShown == \E i \in 1..Len(responseText) : responseText[i] = CancelMark

\* the characters call k has received, normalized
ReceivedChars(k) == { Expected(k)[i] : i \in 1..Len(Expected(k)) }

\* C32: the step that appends the cancellation marker stops the render pump,
\* and while the marker is shown no tick appends a character of the cancelled
\* response: whatever a tick appends was received by a call still under way
C32_NothingAfterMarker ==
    [][/\ \A k \in SendIds : Returns(k, "cancelled") => ~typerInterval'
       /\ (Tick /\ MarkerShown) =>
            \A i \in (Len(responseText) + 1)..Len(responseText') :
                \E j \in SendIds : Live(j) /\ responseText'[i] \in ReceivedChars(j)]_vars

\* C33: the step in which a send returns, whether done, cancelled or failed,
\* leaves the send button enabled, the stop button disabled, the prompt box
\* enabled, abortController null and the render pump stopped
C33_FinallyRestores ==
    [][\A k \in SendIds :
          (Live(k) /\ sends'[k].pc = "finished") =>
              /\ status' \in {"done", "cancelled", "error"}
              /\ ~sendDisabled'
              /\ stopDisabled'
              /\ ~promptDisabled'
              /\ abortController' = NoCtl
              /\ ~typerInterval']_vars

\* a summarize send, which had disabled the prompt box, was stopped while
\* its text was being rendered
C33_Witness ==
    /\ sends[1].pc = "finished"
    /\ nextSend = 2
    /\ clears = 0
    /\ status = "cancelled"
    /\ conversationHistory = <<UserTurn(SummaryPrompt)>>
    /\ typeQueue # <<>>
    /\ ~sendDisabled /\ stopDisabled /\ ~promptDisabled
    /\ abortController = NoCtl
    /\ ~typerInterval

\* =====================================================================
\* The relay server (popup.js:683-808): app.post('/api/gemini')
\* =====================================================================
\* relay.pc is the await the handler is parked at:
\*   opening   await ai.models.generateContentStream(...)   popup.js:753
\*   pulling   for await (const chunk of stream)            popup.js:764
\* writes are the res.write calls, pulls the stream.next() calls the loop has
\* made, taken the chunks it got and got their texts; failed records that the upstream call or
\* stream rejected; atClose is what had been pulled and written when the
\* connection closed.

\* upstream chunks the stream of one request yields
MaxUpstream == 3

\* request bodies: the prompt, and the prior turns
RelayPrompts == { <<>>, <<"q">> }
RelayHistories == { <<>>, <<UserTurn(<<"p">>), ModelTurn(<<"r">>)>> }

\* the text of an upstream chunk: chunk, or chunk.text, or '' without one
UpstreamChunks ==
    { <<>>, <<"a", BS, "n">>, <<"*", "*", "b", "*", "*">>, <<"*", "*", "*", "*">> }

StreamErrorMark == "\n[Stream ended with an error]\n"

\* the arguments of ai.models.generateContentStream: contents is the prompt;
\* no argument is made from req.body.conversationHistory
UpstreamCall(body) == [called |-> TRUE, contents |-> body.prompt, history |-> <<>>]

\* res.status(code).json({error})
JsonAnswer(r, code, error) ==
    [r EXCEPT !.pc = "done", !.headersSent = TRUE, !.statusCode = code,
              !.json = error, !.ended = TRUE]

\* res.write(text): the first write sends the headers, with status 200
Written(r, text) ==
    [r EXCEPT !.writes = Append(@, text), !.headersSent = TRUE,
              !.statusCode = IF r.headersSent THEN @ ELSE 200]

Ended_leftOpen(r) == [r EXCEPT !.pc = "done"]

\* res.end(): sends the headers if nothing has
Ended(r) ==
    [r EXCEPT !.pc = "done", !.ended = TRUE, !.headersSent = TRUE,
              !.statusCode = IF r.headersSent THEN @ ELSE 200]

RelayRequest_noCheck(prompt, history) ==
    /\ relay.pc = "idle"
    /\ relay' = [relay EXCEPT !.prompt = prompt, !.conversationHistory = history,
                              !.pc = "opening",
                              !.upstream = UpstreamCall([prompt |-> prompt,
                                                         conversationHistory |-> history])]
    /\ UNCHANGED popupVars

\* a POST arrives
RelayRequest(prompt, history) ==
    /\ relay.pc = "idle"
    /\ LET r == [relay EXCEPT !.prompt = prompt, !.conversationHistory = history]
       IN  relay' = IF prompt = <<>>
                      THEN JsonAnswer(r, 400, "Prompt is required")
                      ELSE [r EXCEPT !.pc = "opening",
                                     !.upstream = UpstreamCall([prompt |-> prompt,
                                                                conversationHistory |-> history])]
    /\ UNCHANGED popupVars

\* res.on('close')
ClientCloses ==
    /\ relay.pc \in {"opening", "pulling"}
    /\ ~relay.clientAborted
    /\ relay' = [relay EXCEPT !.clientAborted = TRUE,
                              !.atClose = [midStream |-> relay.pc = "pulling",
                                           pulls |-> relay.pulls,
                                           writes |-> Len(relay.writes)]]
    /\ UNCHANGED popupVars

\* generateContentStream resolves: the loop asks for the first chunk
UpstreamOpens ==
    /\ relay.pc = "opening"
    /\ relay' = [relay EXCEPT !.pc = "pulling", !.pulls = @ + 1]
    /\ UNCHANGED popupVars

\* generateContentStream rejects: the outer catch
UpstreamRefuses ==
    /\ relay.pc = "opening"
    /\ relay' = JsonAnswer([relay EXCEPT !.failed = TRUE], 500, "Internal Server Error")
    /\ UNCHANGED popupVars

LoopBody_noAbortCheck(r, text) ==
    IF text # <<>> /\ cleanText(text) # <<>>
      THEN [Written(r, cleanText(text)) EXCEPT !.pulls = @ + 1]
      ELSE [r EXCEPT !.pulls = @ + 1]

LoopBody_writesEmpty(r, text) ==
    IF r.clientAborted THEN Ended(r)
    ELSE [Written(r, cleanText(text)) EXCEPT !.pulls = @ + 1]

\* the body of the for await loop for one chunk, then the next stream.next();
\* break ends the loop and goes to finally
LoopBody(r, text) ==
    IF r.clientAborted THEN Ended(r)
    ELSE IF text # <<>> /\ cleanText(text) # <<>>
      THEN [Written(r, cleanText(text)) EXCEPT !.pulls = @ + 1]
      ELSE [r EXCEPT !.pulls = @ + 1]

CatchStreamErr_noHeaderCheck(r) == Ended(Written(r, <<StreamErrorMark>>))

\* catch (streamErr), then finally
CatchStreamErr(r) ==
    IF ~r.headersSent
      THEN JsonAnswer(r, 500, "Error during streaming")
      ELSE Ended(Written(r, <<StreamErrorMark>>))

\* the stream yields a chunk
UpstreamChunk(text) ==
    /\ relay.pc = "pulling"
    /\ relay.taken < MaxUpstream
    /\ relay' = LoopBody([relay EXCEPT !.taken = @ + 1, !.got = Append(@, text)], text)
    /\ UNCHANGED popupVars

\* the stream is done: finally res.end()
UpstreamEnds ==
    /\ relay.pc = "pulling"
    /\ relay' = Ended(relay)
    /\ UNCHANGED popupVars

\* stream.next() rejects
UpstreamFails ==
    /\ relay.pc = "pulling"
    /\ relay' = CatchStreamErr([relay EXCEPT !.failed = TRUE])
    /\ UNCHANGED popupVars

NextRelay ==
    \/ \E p \in RelayPrompts : \E h \in RelayHistories : RelayRequest(p, h)
    \/ ClientCloses
    \/ UpstreamOpens
    \/ UpstreamRefuses
    \/ \E c \in UpstreamChunks : UpstreamChunk(c)
    \/ UpstreamEnds
    \/ UpstreamFails

SpecRelay == Init /\ [][NextRelay]_vars

\* the relay when every promise it awaits is settled in the end: the upstream
\* call resolves or rejects, and the stream yields, ends or fails
SpecRelayFair == SpecRelay /\ WF_vars(NextRelay)

\* ---------------------------------------------------------------------
\* Properties of the relay

\* the connection closed while the loop was waiting for a chunk
ClosedMidStream == relay.clientAborted /\ relay.atClose.midStream

\* C8 as stated: after the client connection closes mid-stream the relay makes
\* no further stream.next() call and no further write, and once its handler
\* has returned the response is ended.
C8_NothingAfterClose ==
    ClosedMidStream =>
        /\ relay.pulls = relay.atClose.pulls
        /\ Len(relay.writes) = relay.atClose.writes
        /\ relay.json = ""
        /\ relay.pc = "done" => relay.ended

\* C8 amended: after the client connection closes mid-stream, the relay makes
\* no further stream.next() call and writes no chunk text; when the call that
\* was pending settles it ends the response, having written nothing if that
\* call gave a chunk or the end of the stream, and only the error answer (the
\* in-band marker, or the 500 JSON body when nothing had been written) if it
\* failed.
C8_StopsAfterClose ==
    [][(ClosedMidStream /\ relay.pc = "pulling" /\ relay' # relay)
         => /\ relay'.pc = "done" /\ relay'.ended
            /\ relay'.pulls = relay.atClose.pulls
            /\ IF relay'.failed
                 THEN \/ relay'.writes = Append(relay.writes, <<StreamErrorMark>>)
                      \/ relay.writes = <<>> /\ relay'.writes = <<>> /\ relay'.statusCode = 500
                 ELSE relay'.writes = relay.writes /\ relay'.json = ""
            /\ Len(relay.writes) = relay.atClose.writes]_vars

\* the connection closed after a chunk was written, the chunk that was pending
\* then arrived, and the response is ended with nothing more written
C8_Witness ==
    /\ ClosedMidStream /\ relay.pc = "done" /\ relay.ended /\ ~relay.failed
    /\ relay.atClose.writes >= 1
    /\ relay.taken = relay.atClose.pulls
    /\ Len(relay.writes) = relay.atClose.writes

\* C16: a request without a prompt, or with an empty one, is answered 400
\* with a JSON error; the upstream service is not called and no stream text
\* is written.
C16_PromptRequired ==
    (relay.pc # "idle" /\ relay.prompt = <<>>) =>
        /\ relay.pc = "done" /\ relay.ended
        /\ relay.statusCode = 400 /\ relay.json = "Prompt is required"
        /\ ~relay.upstream.called /\ relay.pulls = 0
        /\ relay.writes = <<>>

\* a request with prior turns and no prompt has been refused
C16_Witness ==
    /\ relay.pc = "done" /\ relay.prompt = <<>> /\ relay.conversationHistory # <<>>
    /\ relay.statusCode = 400 /\ ~relay.upstream.called

\* the writes that forward the chunk texts ts: the cleaned text of each, in
\* order, those with nothing left after cleaning left out
RECURSIVE Forwarded(_)
Forwarded(ts) ==
    IF ts = <<>> THEN <<>>
    ELSE (IF cleanText(Head(ts)) = <<>> THEN <<>> ELSE <<cleanText(Head(ts))>>)
           \o Forwarded(Tail(ts))

\* the chunks the loop took while the client was connected
TakenConnected ==
    IF ~relay.clientAborted THEN relay.got
    ELSE IF relay.atClose.midStream THEN SubSeq(relay.got, 1, relay.atClose.pulls - 1)
    ELSE <<>>

\* C17: whenever the relay waits for the next chunk, or has finished, the
\* writes it has made are the cleaned texts of the chunks taken so far while
\* the client was connected, one write per chunk with a non-empty cleaned
\* text, in upstream order (followed only by the error marker after a
\* failure); and each pull is made after the chunk before it was handled.
C17_ForwardedUnbuffered ==
    relay.upstream.called =>
        /\ \/ relay.writes = Forwarded(TakenConnected)
           \/ /\ relay.failed /\ Forwarded(TakenConnected) # <<>>
              /\ relay.writes = Append(Forwarded(TakenConnected), <<StreamErrorMark>>)
        /\ relay.pc = "pulling" => relay.pulls = relay.taken + 1
        /\ relay.pulls <= relay.taken + 1

\* three chunks were taken before the stream ended, one of them with nothing
\* left after cleaning: two writes, already made while the stream was open
C17_Witness ==
    /\ relay.pc = "pulling" /\ ~relay.clientAborted
    /\ Len(relay.got) = 3 /\ Len(relay.writes) = 2
    /\ relay.got[1] # <<>> /\ cleanText(relay.got[1]) = <<>>
    /\ relay.writes[1] # relay.writes[2]
    /\ relay.writes[1] # relay.got[2]

\* C18: every accepted request is finalized: a handler that has returned has
\* ended the response, and a request that is waiting for the upstream call or
\* for a chunk is in the end answered and ended.
C18_AlwaysFinalized ==
    /\ [](relay.pc = "done" => relay.ended)
    /\ (relay.pc \in {"opening", "pulling"}) ~> (relay.pc = "done" /\ relay.ended)

\* the loop stopped after a client disconnect and the response is ended
C18_Witness ==
    /\ relay.pc = "done" /\ relay.ended
    /\ relay.clientAborted /\ ~relay.failed
    /\ relay.upstream.called /\ relay.taken > 0

\* C9: when the upstream call or stream fails before anything has been
\* written, the relay answers 500 with a JSON error and writes no stream
\* text; when it fails after a chunk has been written, the relay writes exactly
\* one error marker and ends the response.
C9_ErrorAnswer ==
    [][(relay'.failed /\ ~relay.failed)
         => IF relay.writes = <<>>
              THEN /\ relay'.statusCode = 500 /\ relay'.json # ""
                   /\ relay'.writes = <<>> /\ relay'.ended
              ELSE /\ relay'.writes = Append(relay.writes, <<StreamErrorMark>>)
                   /\ relay'.json = "" /\ relay'.statusCode = 200
                   /\ relay'.ended]_vars

\* the stream failed after two chunks were written: the marker is the third
\* and last write
C9_Witness ==
    /\ relay.failed /\ relay.ended
    /\ Len(relay.writes) = 3
    /\ relay.writes[3] = <<StreamErrorMark>>
    /\ relay.writes[1] # <<StreamErrorMark>> /\ relay.writes[2] # <<StreamErrorMark>>

\* C10: the upstream generation call is given the prior turns of the request
\* body together with the prompt.
C10_HistoryPassedUpstream ==
    relay.upstream.called =>
        /\ relay.upstream.contents = relay.prompt
        /\ relay.upstream.history = relay.conversationHistory

\* =====================================================================
\* Chunk normalization on its own: cleanChunk (popup.js:147-169) and
\* cleanText (popup.js:724-749) applied to one text, and to their own result
\* =====================================================================

\* longest plain text, and longest text put inside an envelope
MaxTextLen == 6
MaxWrappedLen == 2

\* the characters of the plain texts: they spell the escapes \n and \t and
\* the bold marker **
NormAlphabet == { BS, "*", "n", "t" }

SeqsUpTo(A, n) == UNION { [1..k -> A] : k \in 0..n }

\* JSON.stringify of a string, without the quotes around it
RECURSIVE JsonString(_)
JsonString(t) ==
    IF t = <<>> THEN <<>>
    ELSE (CASE t[1] = QUOTE -> <<BS, QUOTE>>
            [] t[1] = BS -> <<BS, BS>>
            [] t[1] = NL -> <<BS, "n">>
            [] t[1] = TAB -> <<BS, "t">>
            [] OTHER -> <<t[1]>>) \o JsonString(Tail(t))

\* the JSON string '{"text":"..."}' a chunk may come wrapped in
Envelope(t) == <<"{">> \o TextKey \o <<":", QUOTE>> \o JsonString(t) \o <<QUOTE, "}">>

\* an envelope with the member "text" twice, first as an object
TwiceKeyed(t) ==
    <<"{">> \o TextKey \o <<":", "{", "}", ",">> \o TextKey \o <<":", QUOTE>>
            \o JsonString(t) \o <<QUOTE, "}">>

\* an envelope cut before its closing brace
CutEnvelope(t) == SubSeq(Envelope(t), 1, Len(Envelope(t)) - 1)

NormInputs ==
    LET plain == SeqsUpTo(NormAlphabet, MaxTextLen)
        inner == SeqsUpTo(NormAlphabet, MaxWrappedLen)
    IN  plain \cup { Envelope(t) : t \in inner }
              \cup { Envelope(Envelope(t)) : t \in inner }
              \cup { TwiceKeyed(t) : t \in inner }
              \cup { CutEnvelope(t) : t \in inner }

InitNorm ==
    /\ conversationHistory = <<>>
    /\ stored = Absent
    /\ responseText = <<>>
    /\ ttsDisabled = TRUE
    /\ copyDisabled = TRUE
    /\ status = "idle"
    /\ sendDisabled = FALSE
    /\ stopDisabled = TRUE
    /\ promptDisabled = FALSE
    /\ typeQueue = <<>>
    /\ typerInterval = FALSE
    /\ abortController = NoCtl
    /\ storageOps = <<>>
    /\ sends = [k \in SendIds |-> IdleSend]
    /\ nextSend = 1
    /\ chunksRead = 0
    /\ clears = 0
    /\ relay = RelayIdle
    /\ \E x \in NormInputs : norm = [NormIdle EXCEPT !.pc = "raw", !.input = x]
    /\ page = PageIdle

\* the text goes through cleanChunk, and through cleanText
Normalize ==
    /\ norm.pc = "raw"
    /\ norm' = [norm EXCEPT !.pc = "once",
                            !.client = cleanChunk(norm.input),
                            !.server = cleanText(norm.input)]
    /\ UNCHANGED <<conversationHistory, typeQueue, typerInterval, abortController,
                   responseText, ui, stored, storageOps, sends, nextSend,
                   chunksRead, clears, relay, page>>

\* each result goes through the function that made it once more
NormalizeAgain ==
    /\ norm.pc = "once"
    /\ norm' = [norm EXCEPT !.pc = "twice",
                            !.clientAgain = cleanChunk(norm.client),
                            !.serverAgain = cleanText(norm.server)]
    /\ UNCHANGED <<conversationHistory, typeQueue, typerInterval, abortController,
                   responseText, ui, stored, storageOps, sends, nextSend,
                   chunksRead, clears, relay, page>>

NextNorm ==
    \/ Normalize
    \/ NormalizeAgain

SpecNorm == InitNorm /\ [][NextNorm]_vars

\* ---------------------------------------------------------------------
\* Properties of normalization

\* C11: normalization is idempotent: cleanChunk of a text that cleanChunk
\* returned is that text, and likewise for cleanText.
C11_Idempotent ==
    norm.pc = "twice" =>
        /\ norm.clientAgain = norm.client
        /\ norm.serverAgain = norm.server

\* C20: cleanChunk and cleanText are the same function: on every text they
\* return the same result.
C20_SameFunction ==
    norm.pc \in {"once", "twice"} => norm.client = norm.server

\* what a text stands for once every \n is a newline and every \t a tab,
\* both looked for in the text as it came
RECURSIVE EveryEscape(_)
EveryEscape(s) ==
    IF Len(s) < 2 THEN s
    ELSE IF s[1] = BS /\ s[2] = "n" THEN <<NL>> \o EveryEscape(SubSeq(s, 3, Len(s)))
    ELSE IF s[1] = BS /\ s[2] = "t" THEN <<TAB>> \o EveryEscape(SubSeq(s, 3, Len(s)))
    ELSE <<s[1]>> \o EveryEscape(Tail(s))

\* s with the markers of every pair **x** taken out, the pairs read from the
\* left; with oneLine, only pairs whose x holds no line break
RECURSIVE EveryBoldPair(_, _)
EveryBoldPair(s, oneLine) ==
    IF Len(s) < 4 THEN s
    ELSE
      LET ends == { j \in 3..(Len(s) - 1) :
                      /\ s[j] = "*" /\ s[j + 1] = "*"
                      /\ oneLine => \A m \in 3..(j - 1) : s[m] # NL }
      IN  IF s[1] = "*" /\ s[2] = "*" /\ ends # {}
            THEN SubSeq(s, 3, Min(ends) - 1)
                   \o EveryBoldPair(SubSeq(s, Min(ends) + 2, Len(s)), oneLine)
            ELSE <<s[1]>> \o EveryBoldPair(Tail(s), oneLine)

\* the texts the model puts inside an envelope
WrappedTexts ==
    SeqsUpTo(NormAlphabet, MaxWrappedLen)
      \cup { Envelope(t) : t \in SeqsUpTo(NormAlphabet, MaxWrappedLen) }

\* the text a function is to normalize for the input x: the string of the
\* envelope when x is one, else x as it came.  An object with two "text"
\* members counts as an envelope of its last string for cleanChunk
\* (client), and as raw text for cleanText.
PayloadOf(x, client) ==
    IF \E t \in WrappedTexts : x = Envelope(t)
      THEN CHOOSE t \in WrappedTexts : x = Envelope(t)
    ELSE IF client /\ \E t \in WrappedTexts : x = TwiceKeyed(t)
      THEN CHOOSE t \in WrappedTexts : x = TwiceKeyed(t)
    ELSE x

\* C21 as stated: the result is the string of the envelope, or the raw text,
\* with every \n a newline, every \t a tab and every pair **x** replaced
\* by x.
C21_Normalizes ==
    norm.pc = "once" =>
        /\ norm.client = EveryBoldPair(EveryEscape(PayloadOf(norm.input, TRUE)), FALSE)
        /\ norm.server = EveryBoldPair(EveryEscape(PayloadOf(norm.input, FALSE)), FALSE)

\* C21 amended: as stated, but only the pairs **x** whose x holds no line
\* break (after the escapes were replaced) lose their markers.
C21_NormalizesWithinLines ==
    norm.pc = "once" =>
        /\ norm.client = EveryBoldPair(EveryEscape(PayloadOf(norm.input, TRUE)), TRUE)
        /\ norm.server = EveryBoldPair(EveryEscape(PayloadOf(norm.input, FALSE)), TRUE)
        /\ norm.input = <<>> => norm.client = <<>> /\ norm.server = <<>>

\* the envelope {"text":"\\n"} came out as a newline
C21_Witness ==
    /\ norm.pc = "once"
    /\ norm.input = Envelope(<<BS, "n">>)
    /\ norm.client = <<NL>> /\ norm.server = <<NL>>

\* =====================================================================
\* The popup on a page: the startup loader (popup.js:28-50, 645-656),
\* extractMainContent (content.js) and summarizeCurrentPage
\* (popup.js:327-383)
\* =====================================================================
\* page.pc is the await summarizeCurrentPage is parked at:
\*   tab      await chrome.tabs.query(...)                      popup.js:328
\*   first    await chrome.tabs.sendMessage(...)                popup.js:345
\*   inject   await chrome.scripting.executeScript(...)         popup.js:352
\*   wait     await new Promise(r => setTimeout(r, 150))        popup.js:353
\*   second   await chrome.tabs.sendMessage(...)                popup.js:354
\* A text of the page is a sequence of runs: n characters of page content, or
\* the first n characters of the truncation marker.

\* Summarize clicks
MaxSummaries == 1

MAX_SCRAPE == 5000
MAX_SCRAPE_content == 5000

\* '\n\n[...truncated]'.length
MarkLength == 16

PageRun(n) == [of |-> "page", n |-> n]
MarkRun(n) == [of |-> "mark", n |-> n]
Marker == << MarkRun(MarkLength) >>
PageText(n) == IF n = 0 THEN <<>> ELSE << PageRun(n) >>

RECURSIVE TextLength(_)
TextLength(t) == IF t = <<>> THEN 0 ELSE Head(t).n + TextLength(Tail(t))

\* string.slice(0, m)
RECURSIVE Slice(_, _)
Slice(t, m) ==
    IF t = <<>> \/ m <= 0 THEN <<>>
    ELSE IF Head(t).n <= m THEN << Head(t) >> \o Slice(Tail(t), m - Head(t).n)
    ELSE << [Head(t) EXCEPT !.n = m] >>

\* extractMainContent, of a page whose cleaned text has n characters
extractMainContent(n) ==
    LET cleanedText == PageText(n)
    IN  IF TextLength(cleanedText) > MAX_SCRAPE_content
          THEN Slice(cleanedText, MAX_SCRAPE_content) \o Marker
          ELSE cleanedText

textToSummarize_keepsAll(content) ==
    IF TextLength(content) > MAX_SCRAPE THEN content \o Marker ELSE content

\* textToSummarize of summarizeCurrentPage, for the content of the response
textToSummarize(content) ==
    IF TextLength(content) > MAX_SCRAPE
      THEN Slice(content, MAX_SCRAPE) \o Marker
      ELSE content

\* the alerts of summarizeCurrentPage
AlertUnsupported == "Cannot summarize this page (internal or unsupported page). Try a regular website page."
AlertNoUrl == "Could not determine the active tab URL. Make sure you are on a normal web page."
AlertNoContact == "Could not contact the page. Make sure the page allows scripts (not chrome:// or extension pages)."
AlertNoContent == "Could not extract content from the page or the page returned empty content."

\* the active tab: a web page, an internal page, or one without a URL; with
\* or without the content script loaded; its cleaned text
Tabs ==
    [url : {"http", "internal", "none"}, listening : BOOLEAN,
     length : {0, MAX_SCRAPE, MAX_SCRAPE + 1, MAX_SCRAPE + MarkLength + 1}]

\* what chrome.storage.local may hold for the page when the popup opens
OpenStores ==
    { Absent, Stored(<<>>), Stored(<<UserTurn(<<"u1">>)>>), Stored(OldTurns(HistoryCap)),
      Stored(<<UserTurn(<<"u1">>), ModelTurn(<<"m2">>), UserTurn(<<"u3">>)>>) }

\* the popup script has run to its end; the startup loader awaits
\* loadStoredHistory
InitOpen ==
    /\ conversationHistory = <<>>
    /\ stored \in OpenStores
    /\ responseText = <<>>
    /\ ttsDisabled = TRUE
    /\ copyDisabled = TRUE
    /\ status = "idle"
    /\ sendDisabled = FALSE
    /\ stopDisabled = TRUE
    /\ promptDisabled = FALSE
    /\ typeQueue = <<>>
    /\ typerInterval = FALSE
    /\ abortController = NoCtl
    /\ storageOps = <<>>
    /\ sends = [k \in SendIds |-> IdleSend]
    /\ nextSend = 1
    /\ chunksRead = 0
    /\ clears = 0
    /\ relay = RelayIdle
    /\ norm = NormIdle
    /\ \E t \in Tabs :
         /\ t.url = "none" => stored = Absent
         /\ page = [PageIdle EXCEPT !.loaded = FALSE, !.tab = t]

StartupLoaded_lastTurn ==
    /\ ~page.loaded
    /\ page' = [page EXCEPT !.loaded = TRUE]
    /\ LET history == IF page.tab.url # "none" /\ stored.present
                        THEN stored.history ELSE conversationHistory
       IN  /\ conversationHistory' = history
           /\ IF history # <<>>
                THEN /\ responseText' = history[Len(history)].text
                     /\ ttsDisabled' = FALSE
                     /\ copyDisabled' = FALSE
                     /\ status' = "idle"
                ELSE UNCHANGED <<responseText, ttsDisabled, copyDisabled, status>>
    /\ UNCHANGED <<typeQueue, typerInterval, abortController, sendDisabled,
                   stopDisabled, promptDisabled, stored, storageOps, sends, nextSend,
                   chunksRead, clears, relay, norm>>

\* the startup loader: loadStoredHistory resolves and the last model turn, if
\* there is one, is displayed
StartupLoaded ==
    /\ ~page.loaded
    /\ page' = [page EXCEPT !.loaded = TRUE]
    /\ LET history == IF page.tab.url # "none" /\ stored.present
                        THEN stored.history ELSE conversationHistory
       IN  /\ conversationHistory' = history
           /\ IF HasModelTurn(history)
                THEN /\ responseText' = LastModelText(history)
                     /\ ttsDisabled' = FALSE
                     /\ copyDisabled' = FALSE
                     /\ status' = "idle"
                ELSE UNCHANGED <<responseText, ttsDisabled, copyDisabled, status>>
    /\ UNCHANGED <<typeQueue, typerInterval, abortController, sendDisabled,
                   stopDisabled, promptDisabled, stored, storageOps, sends, nextSend,
                   chunksRead, clears, relay, norm>>

\* summarize-btn click: summarizeCurrentPage up to its first await
SummarizeClick ==
    /\ page.pc = "idle"
    /\ page.clicks < MaxSummaries
    /\ page' = [page EXCEPT !.pc = "tab", !.clicks = @ + 1, !.asked = page.messages,
                            !.alert = ""]
    /\ UNCHANGED popupVarsLessPage

Alert_resetsFirst(message) ==
    /\ page' = [page EXCEPT !.pc = "idle", !.alert = message]
    /\ typeQueue' = <<>>
    /\ typerInterval' = FALSE
    /\ responseText' = <<>>
    /\ UNCHANGED <<conversationHistory, abortController, ui, stored, storageOps, sends,
                   nextSend, chunksRead, clears, relay, norm>>

\* alert(), which blocks until dismissed, and return
Alert(message) ==
    /\ page' = [page EXCEPT !.pc = "idle", !.alert = message]
    /\ UNCHANGED popupVarsLessPage

\* chrome.tabs.sendMessage(tab.id, { action: 'summarizePage' })
SendMessage(pc) ==
    /\ page' = [page EXCEPT !.pc = pc, !.messages = @ + 1]
    /\ UNCHANGED popupVarsLessPage

\* the tab is known: its URL is checked and the page messaged
TabKnown ==
    /\ page.pc = "tab"
    /\ CASE page.tab.url = "none" -> Alert(AlertNoUrl)
         [] page.tab.url = "internal" -> Alert(AlertUnsupported)
         [] OTHER -> SendMessage("first")

\* lines 362-382, with the response of the content script, if there is one
UseResponse(answered, content) ==
    IF answered /\ content # <<>>
      THEN /\ page' = [page EXCEPT !.pc = "idle", !.embedded = textToSummarize(content)]
           /\ typeQueue' = <<>>
           /\ typerInterval' = FALSE
           /\ responseText' = <<>>
           /\ StartSend(SummaryPrompt, TRUE)
           /\ UNCHANGED <<abortController, ui, stored, chunksRead, clears, relay, norm>>
      ELSE Alert(AlertNoContent)

\* the listener of the content script answers a message
PageAnswers ==
    /\ page.pc \in {"first", "second"}
    /\ page.tab.listening
    /\ UseResponse(TRUE, extractMainContent(page.tab.length))

Inject ==
    /\ page' = [page EXCEPT !.pc = "inject"]
    /\ UNCHANGED popupVarsLessPage

MessageUnanswered_again(rejects) ==
    /\ ~page.tab.listening
    /\ page.pc \in {"first", "second"}
    /\ Inject

\* no listener answers: sendMessage rejects, or resolves with nothing
MessageUnanswered(rejects) ==
    /\ ~page.tab.listening
    /\ \/ /\ page.pc = "first"
          /\ Inject
       \/ /\ page.pc = "second"
          /\ IF rejects THEN Alert(AlertNoContact) ELSE UseResponse(FALSE, <<>>)

\* executeScript is done: content.js runs in the page, or is refused
Injected(ok) ==
    /\ page.pc = "inject"
    /\ IF ok
         THEN /\ page' = [page EXCEPT !.pc = "wait", !.tab.listening = TRUE]
              /\ UNCHANGED popupVarsLessPage
         ELSE Alert(AlertNoContact)

\* the 150 ms are over: the page is messaged again
WaitOver ==
    /\ page.pc = "wait"
    /\ SendMessage("second")

\* the page is reloaded or navigates: the content script is gone
PageReloads ==
    /\ page.tab.listening
    /\ page.pc \in {"wait", "second"}
    /\ page' = [page EXCEPT !.tab.listening = FALSE]
    /\ UNCHANGED popupVarsLessPage

NextOpen ==
    \/ StartupLoaded
    \/ SummarizeClick
    \/ TabKnown
    \/ PageAnswers
    \/ \E rejects \in BOOLEAN : MessageUnanswered(rejects)
    \/ \E ok \in BOOLEAN : Injected(ok)
    \/ WaitOver
    \/ PageReloads
    \/ Tick
    \/ StopClick
    \/ TabQueryDone
    \/ StorageDone
    \/ \E k \in SendIds : \E ok \in BOOLEAN : FetchResponds(k, ok)
    \/ \E k \in SendIds : FetchFails(k)
    \/ \E k \in SendIds : ErrorBodyRead(k)
    \/ \E k \in SendIds : \E c \in Chunks : ReadChunk(k, c)
    \/ \E k \in SendIds : ReadDone(k)
    \/ \E k \in SendIds : ReadFails(k)
    \/ \E k \in SendIds : DrainCheck(k)

SpecOpen == InitOpen /\ [][NextOpen]_vars

\* ---------------------------------------------------------------------
\* Properties of the popup on a page
\* ---------------------------------------------------------------------

\* a call of summarizeCurrentPage returns
SummarizeReturns == page.pc # "idle" /\ page'.pc = "idle"

\* the call that returns could not get content from the page: the tab is no
\* web page or has no URL, the injection was refused, the message after the
\* injection found no listener, or the page has no text
NoPageContent ==
    \/ page.tab.url # "http"
    \/ page.pc = "inject"
    \/ page.pc = "second" /\ ~page.tab.listening
    \/ extractMainContent(page.tab.length) = <<>>

\* C23: a summarizeCurrentPage call that cannot get content from the page
\* (no web page, no URL, content script unreachable after the injection, empty
\* content) ends with an alert, starts no sendPrompt and so sends no request,
\* and leaves the conversation, the render queue and the display as they
\* were; a call that does get content alerts nothing and sends
C23_FailureOnlyAlerts ==
    [][SummarizeReturns =>
         IF NoPageContent
           THEN /\ page'.alert \in {AlertUnsupported, AlertNoUrl, AlertNoContact, AlertNoContent}
                /\ page.tab.url = "none" <=> page'.alert = AlertNoUrl
                /\ page.tab.url = "internal" <=> page'.alert = AlertUnsupported
                /\ UNCHANGED <<sends, nextSend, storageOps>>
                /\ UNCHANGED <<conversationHistory, typeQueue, responseText>>
           ELSE /\ page'.alert = ""
                /\ nextSend' = nextSend + 1]_vars

C23_Witness ==
    /\ page.pc = "idle"
    /\ page.alert = AlertNoContact
    /\ page.messages = 2
    /\ responseText = <<"m10">>
    /\ nextSend = 1

\* a step of sendPrompt call k fails: the fetch rejects, the relay answers
\* with an error status, or a read of the body rejects
SendFails(k) == FetchFails(k) \/ ErrorBodyRead(k) \/ ReadFails(k)

\* a failed request or read ends its sendPrompt call for good, and starts no
\* other call
NoSendRetried ==
    \A k \in SendIds :
        /\ SendFails(k) => sends'[k].pc = "finished" /\ nextSend' = nextSend
        /\ sends[k].pc = "finished" => sends'[k].pc = "finished"

\* C24 (as stated): nothing is tried again without a new user action: a failed
\* request or read ends its send, and a Summarize click messages the page at
\* most once
C24_NothingRetried ==
    [][/\ NoSendRetried
       /\ page'.messages <= page'.asked + 1]_vars

\* C24 (amended): a failed request or read is never tried again; the page is
\* messaged at most twice for one Summarize click, the second time only after
\* the first message got no response and content.js was injected, and when
\* that message fails too the call ends
C24_OneRetryAfterInjection ==
    [][/\ NoSendRetried
       /\ page'.messages <= page'.asked + 2
       /\ page'.messages # page.messages =>
            \/ page.pc = "tab" /\ page.messages = page.asked
            \/ page.pc = "wait" /\ page.messages = page.asked + 1
       /\ page.pc = "second" => page'.pc \in {"second", "idle"}]_vars

C24_Witness ==
    /\ page.pc = "idle"
    /\ page.messages = page.asked + 2
    /\ page.embedded # <<>>
    /\ sends[1].pc = "finished"
    /\ status = "error"

\* C25: when the startup loader has loaded the stored history of the page and
\* it holds a model turn, the text of its last model turn is displayed and the
\* read and copy buttons are enabled, and no sendPrompt call is started; when
\* it holds none (or nothing is stored), the display stays as it was
C25_LastModelTurnShown ==
    [][StartupLoaded =>
         /\ UNCHANGED <<sends, nextSend, storageOps>>
         /\ IF stored.present /\ HasModelTurn(stored.history)
              THEN /\ \E i \in 1..Len(stored.history) :
                        /\ stored.history[i].role = "model"
                        /\ \A j \in (i + 1)..Len(stored.history) :
                               stored.history[j].role # "model"
                        /\ responseText' = stored.history[i].text
                   /\ ~ttsDisabled' /\ ~copyDisabled'
                   /\ conversationHistory' = stored.history
              ELSE responseText' = responseText]_vars

C25_Witness ==
    /\ page.loaded
    /\ conversationHistory = <<UserTurn(<<"u1">>), ModelTurn(<<"m2">>), UserTurn(<<"u3">>)>>
    /\ responseText = <<"m2">>
    /\ ~ttsDisabled /\ ~copyDisabled
    /\ nextSend = 1

\* the characters of page content in a text
RECURSIVE PageChars(_)
PageChars(t) ==
    IF t = <<>> THEN 0
    ELSE (IF Head(t).of = "page" THEN Head(t).n ELSE 0) + PageChars(Tail(t))

\* C26: the page text put into a summarize prompt, having gone through the
\* truncation of extractMainContent and that of summarizeCurrentPage, is the
\* first min(length, 5000) characters of the cleaned page text, followed by
\* one whole '[...truncated]' marker if the cleaned text had more than 5000
\* characters and by nothing otherwise
C26_TruncatedOnce ==
    page.embedded # <<>> =>
        /\ PageChars(page.embedded) <= MAX_SCRAPE
        /\ page.embedded[1] = PageRun(Min({page.tab.length, MAX_SCRAPE}))
        /\ IF page.tab.length > MAX_SCRAPE
             THEN Tail(page.embedded) = << MarkRun(MarkLength) >>
             ELSE Tail(page.embedded) = <<>>

C26_Witness ==
    /\ page.tab.length = MAX_SCRAPE + MarkLength + 1
    /\ page.embedded = << PageRun(MAX_SCRAPE), MarkRun(MarkLength) >>
    /\ sends[1].pc = "saveUser"

====
